---- MODULE Spec2Model ----
(***************************************************************************)
(* Model of the IsInCountry server (src/server/app.py): the countries      *)
(* table, the /api/v1/check handler and the point-in-polygon helper        *)
(* is_point_in_polygon, which delegates the geometry to Shapely            *)
(* (Polygon(exterior).contains(Point(lon, lat))).                          *)
(*                                                                         *)
(* Numbers: every coordinate is an integer count of 1/10000 degree, so     *)
(* that the decimal literals of the source (34.2, 40.7128, ...) are exact. *)
(* Python values are tagged records [k |-> kind, ...]; the outcome of a    *)
(* Python expression is [exc |-> "none", val |-> v] or [exc |-> <name of   *)
(* the exception raised>].                                                 *)
(***************************************************************************)
EXTENDS Integers, Sequences, FiniteSets, Bags, TLC

\* ------------------------------------------------------------------------
\* Bounds of the model
\* ------------------------------------------------------------------------
\* vertices of generated free-form rings have x = 3*i, i in 0..GridMax, y in {0, 3}
GridMax == 1
\* generated free-form rings have 1..MaxRingLen vertices (before closing)
MaxRingLen == 3
\* generated MultiPolygon payloads have 0..MaxParts polygon parts
MaxParts == 2
\* corners of generated rectangles lie on the points 2*i, i in 0..RectMax
RectMax == 2

\* d degrees in model units
Deg(d) == d * 10000

\* ------------------------------------------------------------------------
\* Python values and outcomes
\* ------------------------------------------------------------------------
JNull == [k |-> "null"]
JNum(n) == [k |-> "num", n |-> n]
JStr(s) == [k |-> "str", s |-> s]
JArr(a) == [k |-> "arr", a |-> a]
JObj(o) == [k |-> "obj", o |-> o]

Ok(v) == [exc |-> "none", val |-> v]
Raise(e) == [exc |-> e]

\* v[key] for a string key
GetItemStr(v, key) ==
    CASE v.k = "obj" -> IF key \in DOMAIN v.o THEN Ok(v.o[key]) ELSE Raise("KeyError")
      [] OTHER -> Raise("TypeError")

\* v[i] for an integer index i >= 0
GetItemInt(v, i) ==
    CASE v.k = "arr" -> IF i < Len(v.a) THEN Ok(v.a[i + 1]) ELSE Raise("IndexError")
      [] v.k = "str" -> IF v.s # "" THEN Ok(JStr(v.s)) ELSE Raise("IndexError")  \* one character of v.s
      [] v.k = "obj" -> Raise("KeyError")
      [] OTHER -> Raise("TypeError")

\* ------------------------------------------------------------------------
\* Exact integer arithmetic for the geometry
\* ------------------------------------------------------------------------
Sign(n) == IF n > 0 THEN 1 ELSE IF n < 0 THEN -1 ELSE 0

\* The sign of a*b - c*d for |a|,|b|,|c|,|d| < 10^7.  Small operands are
\* multiplied directly; large ones on base-10^4 digits, so that no
\* intermediate value leaves the 32-bit range.
SignDiffProd(a, b, c, d) ==
    LET small(n) == -10000 < n /\ n < 10000
        hi(n) == n \div 10000
        lo(n) == n % 10000
        d2 == hi(a) * hi(b) - hi(c) * hi(d)
        d1 == (hi(a) * lo(b) + lo(a) * hi(b)) - (hi(c) * lo(d) + lo(c) * hi(d))
        d0 == lo(a) * lo(b) - lo(c) * lo(d)
        c1 == d1 + hi(d0)
        c2 == d2 + hi(c1)
    IN  IF small(a) /\ small(b) /\ small(c) /\ small(d) THEN Sign(a * b - c * d)
        ELSE IF c2 # 0 THEN Sign(c2)
        ELSE IF lo(c1) # 0 THEN 1
        ELSE IF lo(d0) # 0 THEN 1
        ELSE 0

\* ------------------------------------------------------------------------
\* Shapely: Point, Polygon(shell) and Polygon.contains(Point)
\* ------------------------------------------------------------------------
\* A ring is a sequence of <<x, y>> pairs, a point is a pair <<x, y>>.

\* Point(x, y) with the arguments taken in the other order
PointSwapped(x, y) == <<y, x>>

\* Point(x, y)
Point(x, y) == <<x, y>>

\* a ring is left as given, closed or not
CloseRingNever(ring) == ring

\* LinearRing closes a ring whose first and last vertices differ.
CloseRing(ring) ==
    IF ring[1] = ring[Len(ring)] THEN ring ELSE Append(ring, ring[1])

\* float(c) for one entry of a coordinate pair
CoordError(c) ==
    CASE c.k = "num" -> "none"
      [] c.k = "str" -> "ValueError"
      [] OTHER -> "TypeError"

\* [float(c) for c in o] for one element o of the shell
PairError(o) ==
    CASE o.k \in {"num", "null"} -> "TypeError"
      [] o.k \in {"str", "obj"} -> "ValueError"
      [] OTHER ->
            LET bad == {j \in 1..Len(o.a) : CoordError(o.a[j]) # "none"}
            IN  IF bad = {} THEN "none"
                ELSE CoordError(o.a[CHOOSE j \in bad : \A l \in bad : j <= l])

\* a coordinate pair read as (latitude, longitude)
CoordinateSwapped(pair) == <<pair.a[2].n, pair.a[1].n>>

\* the vertex <<x, y>> a coordinate pair [x, y] of the shell gives
Coordinate(pair) == <<pair.a[1].n, pair.a[2].n>>

\* Polygon(shell) for a decoded JSON value: the closed exterior ring (<<>>
\* for the empty polygon), or the exception the constructor raises.
Polygon(shell) ==
    CASE shell.k = "null" -> Ok(<<>>)
      [] shell.k = "num" -> Raise("TypeError")
      [] shell.k \in {"str", "obj"} -> Raise("ValueError")
      [] OTHER ->
            LET n == Len(shell.a)
                bad == {i \in 1..n : PairError(shell.a[i]) # "none"}
            IN  IF n = 0 THEN Ok(<<>>)
                ELSE IF bad # {}
                     THEN Raise(PairError(shell.a[CHOOSE i \in bad : \A l \in bad : i <= l]))
                ELSE IF \E i \in 1..n : Len(shell.a[i].a) # 2
                     THEN Raise("ValueError")
                ELSE LET ring == [i \in 1..n |-> Coordinate(shell.a[i])]
                         closed == CloseRing(ring)
                     IN  IF Len(closed) < 4 THEN Raise("ValueError") ELSE Ok(closed)

\* orientation of q relative to the directed segment p1 -> p2:
\* 1 counter-clockwise (left), -1 clockwise (right), 0 collinear
OrientationIndex(p1, p2, q) ==
    SignDiffProd(p2[1] - p1[1], q[2] - p1[2], p2[2] - p1[2], q[1] - p1[1])

\* the point lies on the segment p1-p2 as the ray-crossing counter sees it
OnSegment(p, p1, p2) ==
    /\ ~(p1[1] < p[1] /\ p2[1] < p[1])
    /\ \/ p = p2
       \/ /\ p1[2] = p[2] /\ p2[2] = p[2]
          /\ (IF p1[1] < p2[1] THEN p1[1] ELSE p2[1]) <= p[1]
          /\ p[1] <= (IF p1[1] < p2[1] THEN p2[1] ELSE p1[1])
       \/ /\ ~(p1[2] = p[2] /\ p2[2] = p[2])
          /\ (p1[2] > p[2] /\ p2[2] <= p[2]) \/ (p2[2] > p[2] /\ p1[2] <= p[2])
          /\ OrientationIndex(p1, p2, p) = 0

\* the ray from p toward increasing x crosses the segment p1-p2
Crosses(p, p1, p2) ==
    /\ ~(p1[1] < p[1] /\ p2[1] < p[1])
    /\ p # p2
    /\ ~(p1[2] = p[2] /\ p2[2] = p[2])
    /\ (p1[2] > p[2] /\ p2[2] <= p[2]) \/ (p2[2] > p[2] /\ p1[2] <= p[2])
    /\ (IF p2[2] < p1[2] THEN -1 ELSE 1) * OrientationIndex(p1, p2, p) = 1

\* location of the point relative to a closed ring
Locate(p, ring) ==
    LET segs == 1..(Len(ring) - 1)
    IN  IF \E i \in segs : OnSegment(p, ring[i], ring[i + 1]) THEN "boundary"
        ELSE IF Cardinality({i \in segs : Crosses(p, ring[i], ring[i + 1])}) % 2 = 1
             THEN "interior"
        ELSE "exterior"

\* polygon.touches(point): the point is on the boundary
Touches(polygon, point) ==
    polygon # <<>> /\ Locate(point, polygon) = "boundary"

\* polygon.contains(point): the point is in the interior, not on the boundary
Contains(polygon, point) ==
    polygon # <<>> /\ Locate(point, polygon) = "interior"

\* ------------------------------------------------------------------------
\* polygon_data texts and json.loads
\* ------------------------------------------------------------------------
\* A polygon_data text is [form |-> f, parts |-> polys]: polys is a sequence
\* of polygons, a polygon a sequence of rings (exterior first), a ring a
\* sequence of <<lon, lat>> pairs.  The form says what the text spells:
\*   "garbage"      not json
\*   "list"         [1, 2]
\*   "null"         null
\*   "number"       5
\*   "Point"        {"type": "Point", "coordinates": [1, 2]}
\*   "notype"       {"coordinates": <rings of parts[1]>}
\*   "nocoords"     {"type": "Polygon"}
\*   "norings"      {"type": "Polygon", "coordinates": []}
\*   "flat"         {"type": "Polygon", "coordinates": <the exterior ring of parts[1]>}
\*   "badnum"       {"type": "Polygon", "coordinates": [[["a", 0], [4, 0], [4, 4]]]}
\*   "Polygon"      {"type": "Polygon", "coordinates": <rings of parts[1]>}
\*   "MultiPolygon" {"type": "MultiPolygon", "coordinates": <parts>}
Text(form, parts) == [form |-> form, parts |-> parts]

JPair(xy) == JArr(<<JNum(xy[1]), JNum(xy[2])>>)
JRing(ring) == JArr([i \in 1..Len(ring) |-> JPair(ring[i])])
JPolygon(rings) == JArr([i \in 1..Len(rings) |-> JRing(rings[i])])
JMulti(parts) == JArr([i \in 1..Len(parts) |-> JPolygon(parts[i])])

\* json.loads(text)
json_loads(text) ==
    CASE text.form = "garbage" -> Raise("JSONDecodeError")
      [] text.form = "list" -> Ok(JArr(<<JNum(1), JNum(2)>>))
      [] text.form = "null" -> Ok(JNull)
      [] text.form = "number" -> Ok(JNum(5))
      [] text.form = "Point" ->
            Ok(JObj([type |-> JStr("Point"), coordinates |-> JArr(<<JNum(1), JNum(2)>>)]))
      [] text.form = "notype" -> Ok(JObj([coordinates |-> JPolygon(text.parts[1])]))
      [] text.form = "nocoords" -> Ok(JObj([type |-> JStr("Polygon")]))
      [] text.form = "norings" ->
            Ok(JObj([type |-> JStr("Polygon"), coordinates |-> JArr(<<>>)]))
      [] text.form = "flat" ->
            Ok(JObj([type |-> JStr("Polygon"), coordinates |-> JRing(text.parts[1][1])]))
      [] text.form = "badnum" ->
            Ok(JObj([type |-> JStr("Polygon"),
                     coordinates |-> JArr(<<JArr(<<JArr(<<JStr("a"), JNum(0)>>),
                                                   JPair(<<4, 0>>), JPair(<<4, 4>>)>>)>>)]))
      [] text.form = "Polygon" ->
            Ok(JObj([type |-> JStr("Polygon"), coordinates |-> JPolygon(text.parts[1])]))
      [] text.form = "MultiPolygon" ->
            Ok(JObj([type |-> JStr("MultiPolygon"), coordinates |-> JMulti(text.parts)]))

\* ------------------------------------------------------------------------
\* is_point_in_polygon (app.py)
\* ------------------------------------------------------------------------
SHAPELY_AVAILABLE == TRUE

\* Polygon(coordinates[0]).contains(point) for the coordinates of one polygon
ExteriorContains(coordinates, point) ==
    LET exterior == GetItemInt(coordinates, 0)
    IN  IF exterior.exc # "none" THEN exterior
        ELSE LET polygon == Polygon(exterior.val)
             IN  IF polygon.exc # "none" THEN polygon
                 ELSE Ok(Contains(polygon.val, point))

\* the loop over polygon_json['coordinates'] of a MultiPolygon, from part i on
RECURSIVE AnyPartContains(_, _, _)
AnyPartContains(parts, i, point) ==
    IF i > Len(parts) THEN Ok(FALSE)
    ELSE LET r == ExteriorContains(parts[i], point)
         IN  IF r.exc # "none" THEN r
             ELSE IF r.val THEN Ok(TRUE)
             ELSE AnyPartContains(parts, i + 1, point)

\* the body of the try block
PointInPolygonBody(lat, lon, polygon_data) ==
    LET polygon_json == json_loads(polygon_data)
        point == Point(lon, lat)
    IN  IF polygon_json.exc # "none" THEN polygon_json
        ELSE LET type == GetItemStr(polygon_json.val, "type")
                 coordinates == GetItemStr(polygon_json.val, "coordinates")
             IN  IF type.exc # "none" THEN type
                 ELSE IF type.val.k = "str" /\ type.val.s = "Polygon"
                      THEN IF coordinates.exc # "none" THEN coordinates
                           ELSE ExteriorContains(coordinates.val, point)
                 ELSE IF type.val.k = "str" /\ type.val.s = "MultiPolygon"
                      THEN IF coordinates.exc # "none" THEN coordinates
                           ELSE IF coordinates.val.k = "arr"
                                THEN AnyPartContains(coordinates.val.a, 1, point)
                           ELSE Raise("TypeError")
                 ELSE Ok(FALSE)

\* the exceptions the except clause names
CaughtExceptions == {"JSONDecodeError", "KeyError", "IndexError", "ValueError"}

\* is_point_in_polygon(lat, lon, polygon_data): Ok(bool), or the exception
\* that leaves the function
is_point_in_polygon(lat, lon, polygon_data) ==
    IF ~SHAPELY_AVAILABLE THEN Ok(FALSE)
    ELSE LET r == PointInPolygonBody(lat, lon, polygon_data)
         IN  IF r.exc \in CaughtExceptions THEN Ok(FALSE) ELSE r

\* ------------------------------------------------------------------------
\* Request fields and float()
\* ------------------------------------------------------------------------
\* A field of a request body is [k |-> kind, n |-> number, s |-> string]:
\*   "missing" the key is absent      "num" the number n (1/10000 degree)
\*   "nan"     the JSON literal NaN   "inf" the JSON literal Infinity
\*   "str"     the string s           "null" the JSON null
Field(k, n, s) == [k |-> k, n |-> n, s |-> s]
Missing == Field("missing", 0, "")
Num(n) == Field("num", n, "")
Str(s) == Field("str", 0, s)

\* a float is [f |-> "fin", n |-> n], or [f |-> "nan"], [f |-> "inf"] with n = 0
Float(f, n) == [f |-> f, n |-> n]

\* float(x) for a request field
float(x) ==
    CASE x.k = "num" -> Ok(Float("fin", x.n))
      [] x.k = "nan" -> Ok(Float("nan", 0))
      [] x.k = "inf" -> Ok(Float("inf", 0))
      [] x.k = "str" ->
            CASE x.s = "40.7128" -> Ok(Float("fin", 407128))
              [] x.s = "-74.0060" -> Ok(Float("fin", -740060))
              [] x.s = "nan" -> Ok(Float("nan", 0))
              [] x.s = "inf" -> Ok(Float("inf", 0))
              [] OTHER -> Raise("ValueError")
      [] OTHER -> Raise("TypeError")

\* lo <= x <= hi for a float x and finite bounds
Between(lo, x, hi) == x.f = "fin" /\ lo <= x.n /\ x.n <= hi

\* a lookup that leaves the letter case as it is
NoUpper(s) == s

\* str.upper() on the country codes the model uses
upper(s) ==
    CASE s = "usa" -> "USA"
      [] s = "Usa" -> "USA"
      [] s = "zzz" -> "ZZZ"
      [] OTHER -> s

\* ------------------------------------------------------------------------
\* The countries table and the sample data of init-db
\* ------------------------------------------------------------------------
Country(code, name, polygon_data) ==
    [country_code |-> code, country_name |-> name, polygon_data |-> polygon_data]

\* the closed rectangle ring the sample data spells: [w,s],[e,s],[e,n],[w,n],[w,s]
BoxRing(w, s, e, n) == << <<w, s>>, <<e, s>>, <<e, n>>, <<w, n>>, <<w, s>> >>
BoxText(w, s, e, n) == Text("Polygon", << << BoxRing(w, s, e, n) >> >>)

sample_countries ==
    << Country("USA", "United States", BoxText(Deg(-125), Deg(25), Deg(-66), Deg(49))),
       Country("ISR", "Israel", BoxText(342000, 295000, 359000, 334000)),
       Country("FRA", "France", BoxText(Deg(-5), Deg(42), Deg(8), Deg(52))),
       Country("DEU", "Germany", BoxText(58000, 473000, Deg(15), 551000)),
       Country("GBR", "United Kingdom", BoxText(Deg(-8), Deg(49), Deg(2), Deg(61))) >>

\* Country.query.filter_by(country_code=code)
Matching(table, code) == {c \in table : c.country_code = code}

\* ------------------------------------------------------------------------
\* State
\* ------------------------------------------------------------------------
VARIABLES
    countries,  \* the rows of the countries table
    last,       \* the request handled last and what its handler did
    input,      \* the arguments of a direct call of is_point_in_polygon
    admins,     \* the rows of the admins table
    next_id,    \* the next value of the sequence behind admins.id
    sessions,   \* per client, the user id its session cookie holds (0: none)
    pending     \* per process, its request in flight, if any

vars == <<countries, last, input, admins, next_id, sessions, pending>>

\* the browsers that talk to the service, and the loader script beside them
Clients == {"c1", "c2"}
Loader == "loader"
Processes == Clients \cup {Loader}

\* a process is idle, or its request is in flight between the handler's reads
\* and its commit (detail: what the commit will write)
Idle == [phase |-> "idle", route |-> "none", data |-> <<>>, detail |-> <<>>]
Flight(route, data, detail) ==
    [phase |-> "flight", route |-> route, data |-> data, detail |-> detail]

\* the response to a request of process p (status: the HTTP status, detail:
\* what the response reports)
Done(p, route, data, detail, status) ==
    [process |-> p, route |-> route, data |-> data, detail |-> detail, status |-> status]

\* the admin console is not in use: no account, no session, no request
accountVars == <<admins, next_id, sessions, pending>>
NoAccounts ==
    /\ admins = {}
    /\ next_id = 1
    /\ sessions = [c \in Clients |-> 0]
    /\ pending = [p \in Processes |-> Idle]

\* body of a POST /api/v1/check request; body is what get_json() returns:
\* "object" a JSON object with the fields below, "empty" a falsy value,
\* "list" a non-empty list (or a string), "number" a non-zero number (or true)
CheckData(body, latitude, longitude, country_code) ==
    [body |-> body, latitude |-> latitude, longitude |-> longitude,
     country_code |-> country_code]

NoText == Text("garbage", <<>>)
NoData == CheckData("empty", Missing, Missing, Missing)

\* what a handler did with a request:
\*   status         the HTTP status of the response
\*   is_inside      data.is_inside_country of a 200 response of check
\*   looked_up      the handler queried the countries table
\*   engine_called  the handler called is_point_in_polygon, with lat, lon and
\*                  polygon_data; raised is the exception that left it, if any
Handled(route, data) ==
    [route |-> route, data |-> data, status |-> 0, is_inside |-> FALSE,
     looked_up |-> FALSE, engine_called |-> FALSE,
     lat |-> Float("fin", 0), lon |-> Float("fin", 0), polygon_data |-> NoText,
     raised |-> "none"]

NoInput == [family |-> "none", polygon_data |-> NoText, lat |-> 0, lon |-> 0]

\* ------------------------------------------------------------------------
\* POST /api/v1/check
\* ------------------------------------------------------------------------
\* the responses check_coordinate can give to data over the given table
CheckResponses(data, table) ==
    LET h == Handled("check", data)
        required == <<data.latitude, data.longitude, data.country_code>>
        latitude == float(data.latitude)
        longitude == float(data.longitude)
    IN  IF data.body = "empty" THEN {[h EXCEPT !.status = 400]}
        ELSE IF data.body = "number"
             THEN {[h EXCEPT !.status = 500, !.raised = "TypeError"]}
        ELSE IF data.body = "list" \/ \E i \in 1..3 : required[i].k = "missing"
             THEN {[h EXCEPT !.status = 400]}
        ELSE IF latitude.exc # "none" \/ longitude.exc # "none"
             THEN {[h EXCEPT !.status = 400]}
        ELSE IF ~Between(Deg(-90), latitude.val, Deg(90))
             THEN {[h EXCEPT !.status = 400]}
        ELSE IF ~Between(Deg(-180), longitude.val, Deg(180))
             THEN {[h EXCEPT !.status = 400]}
        ELSE IF data.country_code.k # "str"
             THEN {[h EXCEPT !.status = 500, !.raised = "AttributeError"]}
        ELSE LET country_code == upper(data.country_code.s)
                 found == Matching(table, country_code)
                 q == [h EXCEPT !.looked_up = TRUE]
             IN  IF found = {} THEN {[q EXCEPT !.status = 404]}
                 ELSE { LET is_inside == is_point_in_polygon(latitude.val.n, longitude.val.n,
                                                             country.polygon_data)
                            e == [q EXCEPT !.engine_called = TRUE,
                                           !.lat = latitude.val, !.lon = longitude.val,
                                           !.polygon_data = country.polygon_data]
                        IN  IF is_inside.exc # "none"
                            THEN [e EXCEPT !.status = 500, !.raised = is_inside.exc]
                            ELSE [e EXCEPT !.status = 200, !.is_inside = is_inside.val]
                        : country \in found }

check_coordinate(data) ==
    /\ last' \in CheckResponses(data, countries)
    /\ UNCHANGED <<countries, input>>

\* ------------------------------------------------------------------------
\* POST /api/v1/init-db
\* ------------------------------------------------------------------------
\* every sample row, whatever the table holds
every_sample(table) == {sample_countries[i] : i \in 1..Len(sample_countries)}

\* the sample rows whose code the table does not hold yet
added_countries(table) ==
    {sample_countries[i] : i \in {j \in 1..Len(sample_countries) :
                                    Matching(table, sample_countries[j].country_code) = {}}}

initialize_database ==
    /\ countries' = countries \cup added_countries(countries)
    /\ last' = [Handled("init-db", NoData) EXCEPT !.status = 200, !.looked_up = TRUE]
    /\ UNCHANGED input

\* ------------------------------------------------------------------------
\* POST /admin/add-country, /admin/remove-country, /admin/clean-db
\* ------------------------------------------------------------------------
\* body of an add-country request; polygon_data is [k |-> "missing"], or
\* [k |-> "str"] with the text, or [k |-> "obj"]: a JSON object, not a string
AddData(body, country_code, country_name, polygon_data) ==
    [body |-> body, country_code |-> country_code, country_name |-> country_name,
     polygon_data |-> polygon_data]

PolygonField(k, text) == [k |-> k, text |-> text]

\* not data.get(field) for a country_code field
Falsy(x) == x.k = "missing" \/ (x.k = "str" /\ x.s = "") \/ (x.k = "num" /\ x.n = 0)

add_country(data) ==
    LET h == Handled("add_country", data)
        polygon_json == IF data.polygon_data.k = "str" THEN json_loads(data.polygon_data.text)
                        ELSE Raise("TypeError")
        code == upper(data.country_code.s)
    IN  IF data.body = "empty"
        THEN last' = [h EXCEPT !.status = 400] /\ UNCHANGED <<countries, input>>
        ELSE IF \/ Falsy(data.country_code)
                \/ data.country_name = ""
                \/ data.polygon_data.k = "missing"
             THEN last' = [h EXCEPT !.status = 400] /\ UNCHANGED <<countries, input>>
        ELSE IF polygon_json.exc = "JSONDecodeError"
             THEN last' = [h EXCEPT !.status = 400] /\ UNCHANGED <<countries, input>>
        ELSE IF polygon_json.exc # "none"
             THEN /\ last' = [h EXCEPT !.status = 500, !.raised = polygon_json.exc]
                  /\ UNCHANGED <<countries, input>>
        ELSE IF data.country_code.k # "str"
             THEN /\ last' = [h EXCEPT !.status = 500, !.raised = "AttributeError"]
                  /\ UNCHANGED <<countries, input>>
        ELSE IF Matching(countries, code) # {}
             THEN /\ last' = [h EXCEPT !.status = 400, !.looked_up = TRUE]
                  /\ UNCHANGED <<countries, input>>
        ELSE /\ countries' = countries \cup
                                {Country(code, data.country_name, data.polygon_data.text)}
             /\ last' = [h EXCEPT !.status = 200, !.looked_up = TRUE]
             /\ UNCHANGED input

\* body of a remove-country request
RemoveData(country_code) == [country_code |-> country_code]

remove_country(data) ==
    LET h == Handled("remove_country", data)
        code == upper(data.country_code.s)
        found == Matching(countries, code)
    IN  IF Falsy(data.country_code)
        THEN last' = [h EXCEPT !.status = 400] /\ UNCHANGED <<countries, input>>
        ELSE IF data.country_code.k # "str"
             THEN /\ last' = [h EXCEPT !.status = 500, !.raised = "AttributeError"]
                  /\ UNCHANGED <<countries, input>>
        ELSE IF found = {}
             THEN /\ last' = [h EXCEPT !.status = 404, !.looked_up = TRUE]
                  /\ UNCHANGED <<countries, input>>
        ELSE /\ \E country \in found : countries' = countries \ {country}
             /\ last' = [h EXCEPT !.status = 200, !.looked_up = TRUE]
             /\ UNCHANGED input

clean_database ==
    /\ countries' = {}
    /\ last' = [Handled("clean-db", NoData) EXCEPT !.status = 200, !.looked_up = TRUE]
    /\ UNCHANGED input

\* ------------------------------------------------------------------------
\* The requests of the model
\* ------------------------------------------------------------------------
\* exterior square (0,0)-(10,10) with the hole square (4,4)-(6,6)
HoleText == Text("Polygon", << << BoxRing(0, 0, 10, 10), BoxRing(4, 4, 6, 6) >> >>)

\* two disjoint squares (0,0)-(2,2) and (20,20)-(22,22)
TwoSquaresText ==
    Text("MultiPolygon", << << BoxRing(0, 0, 2, 2) >>, << BoxRing(20, 20, 22, 22) >> >>)

\* one part, which has a hole
MultiHoleText == Text("MultiPolygon", HoleText.parts)

\* texts that do not spell a Polygon or MultiPolygon geometry
MalformedTexts ==
    {Text(f, <<>>) : f \in {"garbage", "list", "null", "number", "Point", "nocoords",
                            "norings", "badnum"}}
    \cup {Text(f, << << BoxRing(0, 0, 4, 4) >> >>) : f \in {"notype", "flat"}}
    \cup {Text("Polygon", << << << <<0, 0>>, <<4, 4>> >> >> >>)}

\* the polygon_data strings sent to add-country
AddTexts ==
    MalformedTexts \cup {HoleText, BoxText(Deg(-125), Deg(25), Deg(-66), Deg(49))}

AddRequests ==
    {AddData("object", Str("ZZZ"), "Test", PolygonField("str", t)) : t \in AddTexts}
    \cup {AddData("object", Str("usa"), "Test", PolygonField("str", t)) :
            t \in {Text("list", <<>>), BoxText(Deg(-125), Deg(25), Deg(-66), Deg(49))}}
    \cup {AddData("object", c, "Test", PolygonField("str", HoleText)) :
            c \in {Num(5), Missing, Str("")}}
    \cup {AddData("object", Str("zzz"), n, PolygonField(k, HoleText)) :
            n \in {"", "Test"}, k \in {"missing", "obj"}}
    \cup {AddData("empty", Missing, "", PolygonField("missing", NoText))}

RemoveRequests == {RemoveData(c) : c \in {Str("Usa"), Str("ZZZ"), Num(5), Missing}}

\* (latitude, longitude) of New York, Ottawa, Jerusalem and the two corners
\* of the valid range
ValidPoints ==
    { <<407128, -740060>>, <<454215, -756972>>, <<317683, 352137>>,
      <<Deg(90), Deg(180)>>, <<Deg(-90), Deg(-180)>> }

BadLatitudes ==
    {Missing, Num(Deg(90) + 1), Num(Deg(-91)), Field("nan", 0, ""), Field("inf", 0, ""),
     Str("abc"), Str("nan"), Field("null", 0, "")}

BadLongitudes ==
    {Missing, Num(Deg(180) + 1), Num(Deg(-181)), Field("nan", 0, ""), Str("abc"), Str("inf")}

CoordinateFields ==
    {<<Num(p[1]), Num(p[2])>> : p \in ValidPoints}
    \cup {<<Str("40.7128"), Str("-74.0060")>>}
    \cup {<<b, Num(-740060)>> : b \in BadLatitudes}
    \cup {<<Num(407128), b>> : b \in BadLongitudes}
    \cup {<<Num(Deg(91)), Num(Deg(181))>>}

CheckRequests ==
    {CheckData("object", Num(p[1]), Num(p[2]), c) :
        p \in ValidPoints, c \in {Str("USA"), Str("ISR"), Str("ZZZ")}}
    \cup {CheckData("object", ll[1], ll[2], c) :
            ll \in CoordinateFields, c \in {Str("usa"), Str("ZZZ")}}
    \cup {CheckData("object", Num(407128), Num(-740060), c) : c \in {Num(5), Missing}}
    \cup {CheckData(b, Missing, Missing, Missing) : b \in {"empty", "list", "number"}}

\* ------------------------------------------------------------------------
\* The service
\* ------------------------------------------------------------------------
Init ==
    /\ countries = {}
    /\ last = Handled("none", NoData)
    /\ input = NoInput
    /\ NoAccounts

Check == (\E data \in CheckRequests : check_coordinate(data)) /\ UNCHANGED accountVars
InitDb == initialize_database /\ UNCHANGED accountVars
AddCountry == (\E data \in AddRequests : add_country(data)) /\ UNCHANGED accountVars
RemoveCountry == (\E data \in RemoveRequests : remove_country(data)) /\ UNCHANGED accountVars
CleanDb == clean_database /\ UNCHANGED accountVars

Next ==
    \/ Check
    \/ InitDb
    \/ AddCountry
    \/ RemoveCountry
    \/ CleanDb

Spec == Init /\ [][Next]_vars

\* ------------------------------------------------------------------------
\* Direct calls of is_point_in_polygon
\* ------------------------------------------------------------------------
\* free-form rings and the query points around them
Vertices == {<<3 * i, 3 * j>> : i \in 0..GridMax, j \in 0..1}
RingPoints == {<<x, y>> : x \in 0..(3 * GridMax), y \in 0..3}

\* axis-aligned rectangles <<w, s, e, n>>, their rings from any corner in
\* either direction, closed or not, and the query points around them
Boxes ==
    {<<2 * w, 2 * s, 2 * e, 2 * n>> : w, s, e, n \in 0..RectMax} \cap
    {b \in (0..(2 * RectMax)) \X (0..(2 * RectMax)) \X (0..(2 * RectMax)) \X (0..(2 * RectMax)) :
        b[1] < b[3] /\ b[2] < b[4]}
Corners(b) == << <<b[1], b[2]>>, <<b[3], b[2]>>, <<b[3], b[4]>>, <<b[1], b[4]>> >>
RectRing(b, start, reversed, closed) ==
    LET c == Corners(b)
        open == [i \in 1..4 |-> c[(((IF reversed THEN 4 - i ELSE i - 1) + start) % 4) + 1]]
    IN  IF closed THEN Append(open, open[1]) ELSE open
RectPoints == {<<x, y>> : x, y \in (-1)..(2 * RectMax + 1)}

\* MultiPolygon texts of 0..MaxParts unit squares
UnitBoxes == {b \in Boxes : b[3] = b[1] + 2 /\ b[4] = b[2] + 2}
MultiPoints == {<<x, y>> : x, y \in 0..(2 * RectMax)}
UnitSquares == {<< BoxRing(b[1], b[2], b[3], b[4]) >> : b \in UnitBoxes}

\* the points of the worked examples, and the cities of test_coordinate_check
\* as <<lon, lat>>: New York, Ottawa, London, Paris, Jerusalem, Berlin
ExamplePoints == {<<x, y>> : x, y \in {1, 4, 5, 10, 21}}
Cities ==
    { <<-740060, 407128>>, <<-756972, 454215>>, <<-1278, 515074>>, <<23522, 488566>>,
      <<352137, 317683>>, <<134050, 525200>> }
SampleTexts == {sample_countries[i].polygon_data : i \in 1..Len(sample_countries)}

Input(family, polygon_data, point) ==
    [family |-> family, polygon_data |-> polygon_data, lat |-> point[2], lon |-> point[1]]

\* the table after init-db on an empty database
SampleTable == added_countries({})

\* free-form rings of 1..MaxRingLen vertices
RingInput ==
    \E n \in 1..MaxRingLen : \E r \in [1..n -> Vertices] : \E p \in RingPoints :
        input = Input("ring", Text("Polygon", << <<r>> >>), p)

RectInput ==
    \E b \in Boxes : \E k \in 0..3 : \E rev \in BOOLEAN : \E cl \in BOOLEAN :
        \E p \in RectPoints :
            input = Input("rect", Text("Polygon", << <<RectRing(b, k, rev, cl)>> >>), p)

\* MultiPolygon texts of 0..MaxParts unit squares
MultiInput ==
    \E n \in 0..MaxParts : \E parts \in [1..n -> UnitSquares] : \E p \in MultiPoints :
        input = Input("multi", Text("MultiPolygon", parts), p)

ExampleInput ==
    \E t \in {HoleText, TwoSquaresText, MultiHoleText} : \E p \in ExamplePoints :
        input = Input("example", t, p)

MalformedInput ==
    \E t \in MalformedTexts : \E p \in {<<1, 1>>, <<5, 5>>} :
        input = Input("malformed", t, p)

SampleInput ==
    \E t \in SampleTexts : \E p \in Cities : input = Input("sample", t, p)

EngineInit ==
    /\ countries = SampleTable
    /\ last = Handled("none", NoData)
    /\ NoAccounts
    /\ \/ RingInput
       \/ RectInput
       \/ MultiInput
       \/ ExampleInput
       \/ MalformedInput
       \/ SampleInput

\* is_point_in_polygon(input.lat, input.lon, input.polygon_data)
Invoke ==
    LET r == is_point_in_polygon(input.lat, input.lon, input.polygon_data)
        h == [Handled("direct", NoData) EXCEPT
                !.engine_called = TRUE, !.lat = Float("fin", input.lat),
                !.lon = Float("fin", input.lon), !.polygon_data = input.polygon_data,
                !.raised = r.exc]
    IN  /\ last.route = "none"
        /\ last' = IF r.exc = "none" THEN [h EXCEPT !.is_inside = r.val] ELSE h
        /\ UNCHANGED <<countries, input>>
        /\ UNCHANGED accountVars

\* the check endpoint asked about the input point and a sample country
CheckSample ==
    /\ input.family = "sample"
    /\ last.route = "none"
    /\ \E c \in {"USA", "ISR", "FRA", "DEU", "GBR"} :
          check_coordinate(CheckData("object", Num(input.lat), Num(input.lon), Str(c)))
    /\ UNCHANGED accountVars

EngineNext ==
    \/ Invoke
    \/ CheckSample

SpecEngine == EngineInit /\ [][EngineNext]_vars

\* ------------------------------------------------------------------------
\* Admin accounts, passwords and sessions
\* ------------------------------------------------------------------------
\* the ids the sequence behind admins.id hands out in a run of the model
MaxId == 3

Admin(id, username, email, password_hash) ==
    [id |-> id, username |-> username, email |-> email, password_hash |-> password_hash]

\* bcrypt: the hash carries its salt, and checkpw hashes the candidate with
\* the salt of the stored hash; gensalt() gives the one salt of the model
gensalt == "salt"
hashpw(password, salt) == [salt |-> salt, digest |-> <<"bcrypt", salt, password>>]
checkpw(password, hashed) == hashpw(password, hashed.salt) = hashed

\* a check that accepts every password
check_password_any(admin, password) == TRUE

\* Admin.set_password, Admin.check_password
set_password(password) == hashpw(password, gensalt)
check_password(admin, password) == checkpw(password, admin.password_hash)

\* Admin.query.get(int(user_id)), Admin.query.filter_by(username=username)
load_user(user_id) == {a \in admins : a.id = user_id}
WithUsername(table, username) == {a \in table : a.username = username}

\* current_user of a request of client c, loaded from the table per request
is_authenticated(c) == load_user(sessions[c]) # {}
current_user(c) == CHOOSE a \in load_user(sessions[c]) : TRUE

\* the handler answers the request of process p, or it goes on to its commit
Respond(p, route, data, detail, status) ==
    /\ pending' = [pending EXCEPT ![p] = Idle]
    /\ last' = Done(p, route, data, detail, status)
Proceed(p, route, data, detail) ==
    /\ pending' = [pending EXCEPT ![p] = Flight(route, data, detail)]
    /\ UNCHANGED last

\* a process sends its next request when the previous one has been answered
Ready(p) == pending[p].phase = "idle"
InFlight(p, route) == pending[p].phase = "flight" /\ pending[p].route = route

\* @login_required: login_manager.unauthorized() redirects to login_view
login_required(c) == is_authenticated(c)
Unauthorized(c, route, data) ==
    /\ Respond(c, route, data, "admin_login", 302)
    /\ UNCHANGED <<countries, admins, next_id, sessions, input>>

\* ------------------------------------------------------------------------
\* /admin/login, /admin/logout
\* ------------------------------------------------------------------------
\* the fields of the login form; "" is a field left empty
LoginForm(username, password) == [username |-> username, password |-> password]

admin_login(c, form) ==
    /\ Ready(c)
    /\ UNCHANGED <<countries, admins, next_id, input>>
    /\ IF is_authenticated(c)
       THEN /\ Respond(c, "admin_login", form, "admin_dashboard", 302)
            /\ UNCHANGED sessions
       ELSE IF form.username = "" \/ form.password = ""
            THEN /\ Respond(c, "admin_login", form, "login.html", 200)
                 /\ UNCHANGED sessions
       ELSE LET found == WithUsername(admins, form.username)
            IN  IF \E admin \in found : check_password(admin, form.password)
                THEN \E admin \in found :
                        /\ check_password(admin, form.password)
                        /\ sessions' = [sessions EXCEPT ![c] = admin.id]
                        /\ Respond(c, "admin_login", form, "admin_dashboard", 302)
                ELSE /\ Respond(c, "admin_login", form, "login.html", 200)
                     /\ UNCHANGED sessions

admin_logout(c) ==
    /\ Ready(c)
    /\ IF ~login_required(c)
       THEN Unauthorized(c, "admin_logout", <<>>)
       ELSE /\ sessions' = [sessions EXCEPT ![c] = 0]
            /\ Respond(c, "admin_logout", <<>>, "admin_login", 302)
            /\ UNCHANGED <<countries, admins, next_id, input>>

\* ------------------------------------------------------------------------
\* /admin/init-admins, /admin/init-admins-protected, /admin/add-admin
\* ------------------------------------------------------------------------
\* body of an add-admin request; "" is a key that is absent or empty
AdminData(username, password, email) ==
    [username |-> username, password |-> password, email |-> email]

\* the requests in flight that will insert an admin row
Inserting == {p \in Processes : \E r \in {"init_admins", "init_admins_protected", "add_admin"} :
                                    InFlight(p, r)}

\* the sequence still has an id for one more insert
IdLeft == next_id + Cardinality(Inserting) <= MaxId

\* an admins table without unique constraints
NoAdminConstraint(table, new) == FALSE

\* the unique constraints on admins.username and admins.email
AdminUniqueViolation(table, new) ==
    \E a \in table : a.username = new.username \/ a.email = new.email

\* an insert whose id is the largest stored id plus one, so that the id of
\* a removed row can be handed out again
insert_admin_reusing(c) ==
    LET new == pending[c].detail
        route == pending[c].route
        ids == {a.id : a \in admins}
        rowid == IF ids = {} THEN 1 ELSE (CHOOSE m \in ids : \A x \in ids : x <= m) + 1
        row == Admin(rowid, new.username, new.email, set_password(new.password))
    IN  /\ c \in Inserting
        /\ UNCHANGED <<countries, sessions, input>>
        /\ IF AdminUniqueViolation(admins, new)
           THEN /\ Respond(c, route, pending[c].data, "rollback", 500)
                /\ UNCHANGED <<admins, next_id>>
           ELSE /\ admins' = admins \cup {row}
                /\ next_id' = next_id + 1
                /\ Respond(c, route, pending[c].data, new.username, 200)

\* db.session.add(admin); db.session.commit() of init_admins,
\* init_admins_protected and add_admin, and their except branch
insert_admin(c) ==
    LET new == pending[c].detail
        route == pending[c].route
        row == Admin(next_id, new.username, new.email, set_password(new.password))
    IN  /\ c \in Inserting
        /\ UNCHANGED <<countries, sessions, input>>
        /\ IF AdminUniqueViolation(admins, new)
           THEN /\ Respond(c, route, pending[c].data, "rollback", 500)
                /\ UNCHANGED <<admins, next_id>>
           ELSE /\ admins' = admins \cup {row}
                /\ next_id' = next_id + 1
                /\ Respond(c, route, pending[c].data, new.username, 200)

\* the handler up to the commit: Admin.query.count() and the default admin
count_admins(c, route, default_admin) ==
    /\ UNCHANGED <<countries, admins, next_id, sessions, input>>
    /\ IF Cardinality(admins) = 0
       THEN IdLeft /\ Proceed(c, route, <<>>, default_admin)
       ELSE Respond(c, route, <<>>, "exists", 200)

init_admins_reads(c) ==
    /\ Ready(c)
    /\ count_admins(c, "init_admins", AdminData("liron1219", "123456", "liron@example.com"))

init_admins_protected_reads(c) ==
    /\ Ready(c)
    /\ IF ~login_required(c)
       THEN Unauthorized(c, "init_admins_protected", <<>>)
       ELSE count_admins(c, "init_admins_protected",
                         AdminData("admin", "admin123", "admin@example.com"))

add_admin_reads(c, data) ==
    /\ Ready(c)
    /\ IF ~login_required(c)
       THEN Unauthorized(c, "add_admin", data)
       ELSE /\ UNCHANGED <<countries, admins, next_id, sessions, input>>
            /\ IF data.username = "" \/ data.password = ""
               THEN Respond(c, "add_admin", data, "required", 400)
               ELSE IF WithUsername(admins, data.username) # {}
                    THEN Respond(c, "add_admin", data, "exists", 400)
               ELSE IdLeft /\ Proceed(c, "add_admin", data, data)

\* ------------------------------------------------------------------------
\* /admin/remove-admin, /admin/admins, /admin/stats
\* ------------------------------------------------------------------------
remove_admin_reads(c, username) ==
    /\ Ready(c)
    /\ IF ~login_required(c)
       THEN Unauthorized(c, "remove_admin", username)
       ELSE /\ UNCHANGED <<countries, admins, next_id, sessions, input>>
            /\ IF username = ""
               THEN Respond(c, "remove_admin", username, "required", 400)
               ELSE IF username = current_user(c).username
                    THEN Respond(c, "remove_admin", username, "yourself", 400)
               ELSE IF WithUsername(admins, username) = {}
                    THEN Respond(c, "remove_admin", username, "not found", 404)
               ELSE IF Cardinality(admins) <= 1
                    THEN Respond(c, "remove_admin", username, "last admin", 400)
               ELSE \E admin_to_remove \in WithUsername(admins, username) :
                        Proceed(c, "remove_admin", username, admin_to_remove)

\* db.session.delete(admin_to_remove); db.session.commit(): the DELETE is by
\* primary key, and matching no row is a warning, not an error
remove_admin_commit(c) ==
    /\ InFlight(c, "remove_admin")
    /\ admins' = admins \ {pending[c].detail}
    /\ Respond(c, "remove_admin", pending[c].data, "removed", 200)
    /\ UNCHANGED <<countries, next_id, sessions, input>>

get_admins(c) ==
    /\ Ready(c)
    /\ IF ~login_required(c)
       THEN Unauthorized(c, "get_admins", <<>>)
       ELSE /\ Respond(c, "get_admins", <<>>, Cardinality(admins), 200)
            /\ UNCHANGED <<countries, admins, next_id, sessions, input>>

admin_stats(c) ==
    /\ Ready(c)
    /\ IF ~login_required(c)
       THEN Unauthorized(c, "admin_stats", <<>>)
       ELSE /\ Respond(c, "admin_stats", <<>>,
                       <<BagCardinality(countries), Cardinality(admins)>>, 200)
            /\ UNCHANGED <<countries, admins, next_id, sessions, input>>

\* ------------------------------------------------------------------------
\* The countries table under concurrent requests
\* ------------------------------------------------------------------------
\* Rows of a table differ by their primary key even when their other
\* columns are equal: under concurrent requests the variable countries is
\* the bag of the rows without their key, and stored_countries its rows.
stored_countries == BagToSet(countries)

\* a table without the constraint accepts every INSERT
NoUniqueConstraint(table, rows) == FALSE

\* the unique constraint on countries.country_code: an INSERT of rows fails
\* when the table holds one of their codes
UniqueViolation(table, rows) == \E r \in rows : Matching(table, r.country_code) # {}

\* a commit that replaces the stored rows of the same codes
upsert_countries(p, route) ==
    LET rows == pending[p].detail
        kept == {r \in stored_countries : \A n \in rows : n.country_code # r.country_code}
    IN  /\ InFlight(p, route)
        /\ UNCHANGED <<admins, next_id, sessions, input>>
        /\ countries' = SetToBag(kept \cup rows)
        /\ Respond(p, route, pending[p].data, rows, 200)

\* The new rows have new primary keys. A remove_country in flight that
\* selected a row of equal columns selected an earlier row, deleted since
\* (the unique constraint let the insert pass): its DELETE by primary key
\* will match no row.
Unselected(request, rows) ==
    IF request.phase = "flight" /\ request.route = "remove_country"
    THEN [request EXCEPT !.detail = @ \ rows]
    ELSE request

\* a failed commit that keeps the rows inserted before the failing one
insert_without_rollback(p, route) ==
    LET rows == pending[p].detail
        fresh == {r \in rows : Matching(stored_countries, r.country_code) = {}}
    IN  /\ InFlight(p, route)
        /\ UNCHANGED <<admins, next_id, sessions, input>>
        /\ IF UniqueViolation(stored_countries, rows)
           THEN /\ Respond(p, route, pending[p].data, {}, 500)
                /\ countries' = countries (+) SetToBag(fresh)
           ELSE /\ countries' = countries (+) SetToBag(rows)
                /\ Respond(p, route, pending[p].data, rows, 200)

\* db.session.commit() of the rows a handler added, and its except branch:
\* IntegrityError, rollback, 500
insert_countries(p, route) ==
    LET rows == pending[p].detail
    IN  /\ InFlight(p, route)
        /\ UNCHANGED <<admins, next_id, sessions, input>>
        /\ IF UniqueViolation(stored_countries, rows)
           THEN /\ Respond(p, route, pending[p].data, {}, 500)
                /\ UNCHANGED countries
           ELSE /\ countries' = countries (+) SetToBag(rows)
                /\ pending' = [q \in Processes |-> IF q = p THEN Idle ELSE Unselected(pending[q], rows)]
                /\ last' = Done(p, route, pending[p].data, rows, 200)

\* POST /api/v1/init-db: the loop over sample_countries, then the commit
initialize_database_reads(c) ==
    /\ Ready(c)
    /\ Proceed(c, "initialize_database", <<>>, added_countries(stored_countries))
    /\ UNCHANGED <<countries, admins, next_id, sessions, input>>

initialize_database_commit(c) == insert_countries(c, "initialize_database")

\* add_country up to the insert: the status of an early return, or 0
add_country_returns(data, table) ==
    LET polygon_json == IF data.polygon_data.k = "str" THEN json_loads(data.polygon_data.text)
                        ELSE Raise("TypeError")
    IN  IF data.body = "empty" THEN 400
        ELSE IF \/ Falsy(data.country_code)
                \/ data.country_name = ""
                \/ data.polygon_data.k = "missing"
             THEN 400
        ELSE IF polygon_json.exc = "JSONDecodeError" THEN 400
        ELSE IF polygon_json.exc # "none" THEN 500
        ELSE IF data.country_code.k # "str" THEN 500
        ELSE IF Matching(table, upper(data.country_code.s)) # {} THEN 400
        ELSE 0

new_country(data) ==
    Country(upper(data.country_code.s), data.country_name, data.polygon_data.text)

add_country_reads(c, data) ==
    LET status == add_country_returns(data, stored_countries)
    IN  /\ Ready(c)
        /\ IF ~login_required(c)
           THEN Unauthorized(c, "add_country", data)
           ELSE /\ UNCHANGED <<countries, admins, next_id, sessions, input>>
                /\ IF status # 0
                   THEN Respond(c, "add_country", data, {}, status)
                   ELSE Proceed(c, "add_country", data, {new_country(data)})

add_country_commit(c) == insert_countries(c, "add_country")

remove_country_reads(c, data) ==
    LET found == Matching(stored_countries, upper(data.country_code.s))
    IN  /\ Ready(c)
        /\ IF ~login_required(c)
           THEN Unauthorized(c, "remove_country", data)
           ELSE /\ UNCHANGED <<countries, admins, next_id, sessions, input>>
                /\ IF Falsy(data.country_code)
                   THEN Respond(c, "remove_country", data, {}, 400)
                   ELSE IF data.country_code.k # "str"
                        THEN Respond(c, "remove_country", data, {}, 500)
                   ELSE IF found = {}
                        THEN Respond(c, "remove_country", data, {}, 404)
                   ELSE \E country \in found :
                            Proceed(c, "remove_country", data, {country})

\* db.session.delete(country); db.session.commit(): the DELETE is by primary
\* key, and matching no row is a warning, not an error
remove_country_commit(c) ==
    /\ InFlight(c, "remove_country")
    /\ countries' = countries (-) SetToBag(pending[c].detail)
    /\ Respond(c, "remove_country", pending[c].data, pending[c].detail, 200)
    /\ UNCHANGED <<admins, next_id, sessions, input>>

\* Country.query.delete() is one statement
clean_database_request(c) ==
    /\ Ready(c)
    /\ IF ~login_required(c)
       THEN Unauthorized(c, "clean_database", <<>>)
       ELSE /\ countries' = EmptyBag
            /\ Respond(c, "clean_database", <<>>, <<>>, 200)
            /\ UNCHANGED <<admins, next_id, sessions, input>>

\* a check that empties the table it has read
check_then_clean(c, data) ==
    /\ Ready(c)
    /\ \E h \in CheckResponses(data, stored_countries) :
          Respond(c, "check_coordinate", data, [is_inside |-> h.is_inside], h.status)
    /\ countries' = EmptyBag
    /\ UNCHANGED <<admins, next_id, sessions, input>>

\* POST /api/v1/check reads the table once
check_coordinate_request(c, data) ==
    /\ Ready(c)
    /\ \E h \in CheckResponses(data, stored_countries) :
          Respond(c, "check_coordinate", data, [is_inside |-> h.is_inside], h.status)
    /\ UNCHANGED <<countries, admins, next_id, sessions, input>>

\* data_loader.load_sample_countries: the first rows of countries_data
countries_data ==
    << Country("USA", "United States", BoxText(Deg(-125), Deg(25), Deg(-66), Deg(49))),
       Country("CAN", "Canada", BoxText(Deg(-140), Deg(42), Deg(-52), Deg(84))) >>

\* the rows the loader inserts: those whose code its SELECT did not find
loader_rows(table) ==
    {countries_data[i] : i \in {j \in 1..Len(countries_data) :
                                  Matching(table, countries_data[j].country_code) = {}}}

load_sample_countries_reads ==
    /\ Ready(Loader)
    /\ Proceed(Loader, "load_sample_countries", <<>>, loader_rows(stored_countries))
    /\ UNCHANGED <<countries, admins, next_id, sessions, input>>

\* conn.commit(), or conn.rollback() after a failed INSERT
load_sample_countries_commit == insert_countries(Loader, "load_sample_countries")

\* ------------------------------------------------------------------------
\* The country routes under concurrent requests: one admin account exists,
\* two clients and the loader script run their requests interleaved
\* ------------------------------------------------------------------------
DefaultAdmin == Admin(1, "liron1219", "liron@example.com", set_password("123456"))

StoreLogins == {LoginForm("liron1219", "123456")}

StoreAddRequests ==
    { AddData("object", Str("zzz"), "Test", PolygonField("str", Text("null", <<>>))),
      AddData("object", Str("usa"), "Test", PolygonField("str", HoleText)),
      AddData("object", Str("zzz"), "", PolygonField("str", HoleText)),
      AddData("object", Str("zzz"), "Test", PolygonField("str", Text("garbage", <<>>))) }

StoreRemoveRequests == {RemoveData(c) : c \in {Str("zzz"), Str("Usa")}}

StoreCheckRequests ==
    {CheckData("object", Num(407128), Num(-740060), c) : c \in {Str("usa"), Str("zzz")}}
    \cup {CheckData("object", Num(Deg(91)), Num(-740060), Str("usa"))}

StoreInit ==
    /\ countries = EmptyBag
    /\ admins = {DefaultAdmin}
    /\ next_id = 2
    /\ sessions = [c \in Clients |-> 0]
    /\ pending = [p \in Processes |-> Idle]
    /\ last = Handled("none", NoData)
    /\ input = NoInput

StoreNext ==
    \/ \E c \in Clients : \E form \in StoreLogins : admin_login(c, form)
    \/ \E c \in Clients : admin_logout(c)
    \/ \E c \in Clients : initialize_database_reads(c)
    \/ \E c \in Clients : initialize_database_commit(c)
    \/ \E c \in Clients : \E data \in StoreAddRequests : add_country_reads(c, data)
    \/ \E c \in Clients : add_country_commit(c)
    \/ \E c \in Clients : \E data \in StoreRemoveRequests : remove_country_reads(c, data)
    \/ \E c \in Clients : remove_country_commit(c)
    \/ \E c \in Clients : clean_database_request(c)
    \/ \E c \in Clients : \E data \in StoreCheckRequests : check_coordinate_request(c, data)
    \/ load_sample_countries_reads
    \/ load_sample_countries_commit

SpecStore == StoreInit /\ [][StoreNext]_vars

\* ------------------------------------------------------------------------
\* The admin routes under concurrent requests, from an empty database
\* ------------------------------------------------------------------------
AdminLogins ==
    { LoginForm("liron1219", "123456"),
      LoginForm("liron1219", "pw"),
      LoginForm("bob", "pw") }

AdminAddRequests ==
    { AdminData("bob", "pw", ""),
      AdminData("liron1219", "pw", ""),
      AdminData("bob", "", "") }

AdminRemoveRequests == {"bob", "liron1219"}

AdminCountryAdd == AddData("object", Str("zzz"), "Test", PolygonField("str", HoleText))
AdminCountryRemove == RemoveData(Str("zzz"))

\* no request has been answered yet
NoResponse == Done("none", "none", <<>>, <<>>, 0)

AdminInit ==
    /\ countries = EmptyBag
    /\ NoAccounts
    /\ last = NoResponse
    /\ input = NoInput

AdminNext ==
    \/ \E c \in Clients : \E form \in AdminLogins : admin_login(c, form)
    \/ \E c \in Clients : admin_logout(c)
    \/ \E c \in Clients : init_admins_reads(c)
    \/ \E c \in Clients : init_admins_protected_reads(c)
    \/ \E c \in Clients : \E data \in AdminAddRequests : add_admin_reads(c, data)
    \/ \E c \in Clients : insert_admin(c)
    \/ \E c \in Clients : \E username \in AdminRemoveRequests : remove_admin_reads(c, username)
    \/ \E c \in Clients : remove_admin_commit(c)
    \/ \E c \in Clients : get_admins(c)
    \/ \E c \in Clients : admin_stats(c)
    \/ \E c \in Clients : add_country_reads(c, AdminCountryAdd)
    \/ \E c \in Clients : add_country_commit(c)
    \/ \E c \in Clients : remove_country_reads(c, AdminCountryRemove)
    \/ \E c \in Clients : remove_country_commit(c)
    \/ \E c \in Clients : clean_database_request(c)

SpecAdmin == AdminInit /\ [][AdminNext]_vars

\* ------------------------------------------------------------------------
\* Reference geometry of axis-aligned boxes, used to state the properties
\* ------------------------------------------------------------------------
MinOf(S) == CHOOSE m \in S : \A x \in S : m <= x
MaxOf(S) == CHOOSE m \in S : \A x \in S : x <= m

\* the bounding box <<w, s, e, n>> of a ring
BoxOf(ring) ==
    LET xs == {ring[i][1] : i \in 1..Len(ring)}
        ys == {ring[i][2] : i \in 1..Len(ring)}
    IN  <<MinOf(xs), MinOf(ys), MaxOf(xs), MaxOf(ys)>>

StrictlyInside(p, b) == b[1] < p[1] /\ p[1] < b[3] /\ b[2] < p[2] /\ p[2] < b[4]
StrictlyOutside(p, b) == p[1] < b[1] \/ b[3] < p[1] \/ p[2] < b[2] \/ b[4] < p[2]
OnBoundary(p, b) == ~StrictlyInside(p, b) /\ ~StrictlyOutside(p, b)

\* the point <<lon, lat>> and the exterior ring of the direct call
InputPoint == <<input.lon, input.lat>>
InputRing == input.polygon_data.parts[1][1]

\* a direct call of is_point_in_polygon has returned
Returned == last.route = "direct"
ReturnedTrue == Returned /\ last.raised = "none" /\ last.is_inside
ReturnedFalse == Returned /\ last.raised = "none" /\ ~last.is_inside

\* the check endpoint has answered 200 for a sample country
Answered == last.route = "check" /\ last.engine_called
AnsweredPoint == <<last.lon.n, last.lat.n>>
AnsweredBox == BoxOf(last.polygon_data.parts[1][1])

\* ------------------------------------------------------------------------
\* C1: a point exactly on an edge or at a vertex of the exterior ring is
\* reported inside (is_point_in_polygon returns true).
\* ------------------------------------------------------------------------
C1_BoundaryIsInside ==
    (Returned /\ input.family = "rect" /\ OnBoundary(InputPoint, BoxOf(InputRing)))
        => ReturnedTrue

\* ------------------------------------------------------------------------
\* C2: in a Polygon with a hole, a point strictly inside the hole is reported
\* outside, and a point inside the exterior ring and outside the hole inside.
\* ------------------------------------------------------------------------
C2_HoleExcluded ==
    (Returned /\ input.polygon_data = HoleText) =>
        LET exterior == BoxOf(HoleText.parts[1][1])
            hole == BoxOf(HoleText.parts[1][2])
        IN  /\ StrictlyInside(InputPoint, hole) => ReturnedFalse
            /\ (StrictlyInside(InputPoint, exterior) /\ StrictlyOutside(InputPoint, hole))
                  => ReturnedTrue

\* ------------------------------------------------------------------------
\* C3: for a malformed payload is_point_in_polygon returns false and raises
\* no exception.
\* ------------------------------------------------------------------------
C3_MalformedIsFalse ==
    (Returned /\ input.family = "malformed") => ReturnedFalse

\* the forms of MalformedTexts that leave is_point_in_polygon by an exception
\* its except clause does not name
RaisingForms == {"list", "null", "number", "flat"}

\* a malformed payload gives false, unless its form is one of RaisingForms,
\* and then a TypeError leaves the function
MalformedOutcome ==
    (Returned /\ input.family = "malformed") =>
        IF input.polygon_data.form \in RaisingForms
        THEN last.raised = "TypeError"
        ELSE ReturnedFalse

\* ------------------------------------------------------------------------
\* C4: a check request with present, numeric, in-range coordinates that names
\* a stored country is answered 200, with is_inside_country false when the
\* stored geometry is malformed; never 500.
\* ------------------------------------------------------------------------
\* the request has a finite number in range for both coordinates
ValidCoordinates(data) ==
    /\ data.body = "object"
    /\ data.latitude.k = "num" /\ Deg(-90) <= data.latitude.n /\ data.latitude.n <= Deg(90)
    /\ data.longitude.k = "num" /\ Deg(-180) <= data.longitude.n /\ data.longitude.n <= Deg(180)

\* the request names a country of the table
NamesStoredCountry(data) ==
    data.country_code.k = "str" /\ Matching(countries, upper(data.country_code.s)) # {}

C4_StoredGeometryNeverFails ==
    (last.route = "check" /\ ValidCoordinates(last.data) /\ NamesStoredCountry(last.data))
        => /\ last.status = 200
           /\ last.polygon_data \in MalformedTexts => ~last.is_inside

\* ------------------------------------------------------------------------
\* C5: for an axis-aligned rectangular ring, a point strictly inside is
\* reported inside and a point strictly outside is reported outside, by
\* is_point_in_polygon and by the check endpoint on the sample countries.
\* ------------------------------------------------------------------------
C5_RectangleContainment ==
    /\ (Returned /\ input.family \in {"rect", "sample"}) =>
          /\ StrictlyInside(InputPoint, BoxOf(InputRing)) => ReturnedTrue
          /\ StrictlyOutside(InputPoint, BoxOf(InputRing)) => ReturnedFalse
    /\ (last.route = "check" /\ input.family = "sample") =>
          /\ Answered /\ last.status = 200
          /\ StrictlyInside(AnsweredPoint, AnsweredBox) => last.is_inside
          /\ StrictlyOutside(AnsweredPoint, AnsweredBox) => ~last.is_inside

\* a generated rectangle, given without the closing vertex and starting along
\* a vertical edge, holds the point
C5_Witness ==
    /\ ReturnedTrue /\ input.family = "rect" /\ Len(InputRing) = 4
    /\ InputRing[2][1] = InputRing[1][1]
    /\ StrictlyInside(InputPoint, BoxOf(InputRing))

\* ------------------------------------------------------------------------
\* C6: the check endpoint reports New York (40.7128, -74.0060) inside and
\* Ottawa (45.4215, -75.6972) outside the USA rectangle lon[-125,-66] x
\* lat[25,49].
\* ------------------------------------------------------------------------
UsaText == sample_countries[1].polygon_data

\* the request asks about (lat, lon) in a USA row that holds the rectangle
AsksUsa(lat, lon) ==
    /\ last.route = "check" /\ last.data.body = "object"
    /\ last.data.latitude = Num(lat) /\ last.data.longitude = Num(lon)
    /\ last.data.country_code.k = "str" /\ upper(last.data.country_code.s) = "USA"
    /\ \E c \in countries : c.country_code = "USA" /\ c.polygon_data = UsaText

C6_UsaScenario ==
    /\ AsksUsa(407128, -740060) => (last.status = 200 /\ last.is_inside)
    /\ AsksUsa(454215, -756972) => (last.status = 200 /\ ~last.is_inside)

\* C6 as amended: both points lie in the rectangle (25 < 45.4215 < 49 and
\* -125 < -75.6972 < -66), and the check endpoint reports both inside.
C6_UsaScenarioAmended ==
    /\ AsksUsa(407128, -740060) => (last.status = 200 /\ last.is_inside)
    /\ AsksUsa(454215, -756972) => (last.status = 200 /\ last.is_inside)

C6_Witness == AsksUsa(454215, -756972) /\ last.status = 200 /\ last.is_inside

\* ------------------------------------------------------------------------
\* C7: pairs are read as (longitude, latitude) and the point is built with
\* x = longitude, y = latitude: against the rectangle lon[a,b] x lat[c,d]
\* the result is true iff a < lon < b and c < lat < d.
\* ------------------------------------------------------------------------
C7_CoordinateOrder ==
    /\ (Returned /\ input.family \in {"rect", "sample"}) =>
          /\ last.raised = "none"
          /\ last.is_inside = StrictlyInside(<<input.lon, input.lat>>, BoxOf(InputRing))
    /\ Answered =>
          /\ last.status = 200
          /\ last.is_inside = StrictlyInside(<<last.lon.n, last.lat.n>>, AnsweredBox)

\* Jerusalem (lat 31.7683, lon 35.2137) is in the Israel rectangle; read as
\* (lon 31.7683, lat 35.2137) it would not be
C7_Witness ==
    /\ ReturnedTrue /\ input.family = "sample"
    /\ input.lat = 317683 /\ input.lon = 352137
    /\ ~StrictlyInside(<<input.lat, input.lon>>, BoxOf(InputRing))

\* ------------------------------------------------------------------------
\* C8: for a MultiPolygon the result is true iff the point is contained in at
\* least one of its polygon parts, and false when there are no parts.
\* ------------------------------------------------------------------------
\* the point is in the part: inside its exterior ring and in none of its holes
InPart(p, part) ==
    /\ StrictlyInside(p, BoxOf(part[1]))
    /\ \A h \in 2..Len(part) : StrictlyOutside(p, BoxOf(part[h]))

C8_MultiPolygonOr ==
    (Returned /\ input.polygon_data.form = "MultiPolygon") =>
        /\ last.raised = "none"
        /\ last.is_inside = \E i \in 1..Len(input.polygon_data.parts) :
                                InPart(InputPoint, input.polygon_data.parts[i])

\* the same, for the MultiPolygon payloads none of whose parts has a hole
MultiPolygonOrWithoutHoles ==
    (Returned /\ input.polygon_data.form = "MultiPolygon"
              /\ \A i \in 1..Len(input.polygon_data.parts) :
                    Len(input.polygon_data.parts[i]) = 1)
        => /\ last.raised = "none"
           /\ last.is_inside = \E i \in 1..Len(input.polygon_data.parts) :
                                   InPart(InputPoint, input.polygon_data.parts[i])

\* ------------------------------------------------------------------------
\* C9: a ring with its first vertex repeated at the end and the same ring
\* without that duplicate give the same result for every point.
\* ------------------------------------------------------------------------
C9_ClosureInsensitive ==
    (Returned /\ input.family \in {"ring", "rect"}) =>
        LET closed == Text("Polygon", << << Append(InputRing, InputRing[1]) >> >>)
            r == is_point_in_polygon(input.lat, input.lon, closed)
        IN  /\ r.exc = last.raised
            /\ r.exc = "none" => r.val = last.is_inside

\* a ring given without the closing vertex holds the point
C9_Witness ==
    /\ ReturnedTrue /\ input.family \in {"ring", "rect"}
    /\ InputRing[1] # InputRing[Len(InputRing)]

\* ------------------------------------------------------------------------
\* C10: a check request with a missing field, a non-numeric or NaN
\* coordinate or an out-of-range coordinate is answered 400 before any
\* country lookup or call of is_point_in_polygon.
\* ------------------------------------------------------------------------
\* the field is absent from the body
Absent(data, x) == data.body # "object" \/ x.k = "missing"

\* the field spells a finite number within lo..hi
NumberIn(x, lo, hi) ==
    \/ x.k = "num" /\ lo <= x.n /\ x.n <= hi
    \/ x.k = "str" /\ x.s \in {"40.7128", "-74.0060"}

InvalidRequest(data) ==
    \/ Absent(data, data.latitude) \/ Absent(data, data.longitude)
    \/ Absent(data, data.country_code)
    \/ ~NumberIn(data.latitude, Deg(-90), Deg(90))
    \/ ~NumberIn(data.longitude, Deg(-180), Deg(180))

C10_InvalidRejected ==
    (last.route = "check" /\ InvalidRequest(last.data)) =>
        last.status = 400 /\ ~last.looked_up /\ ~last.engine_called

\* is_point_in_polygon is called by the handler only with finite coordinates
\* in range
EngineCoordinatesValid ==
    Answered => /\ Between(Deg(-90), last.lat, Deg(90))
                /\ Between(Deg(-180), last.lon, Deg(180))

\* an invalid check request never reaches the lookup or is_point_in_polygon;
\* it is answered 400, unless its body is a bare number, and then 500
InvalidRejectedUnlessScalarBody ==
    (last.route = "check" /\ InvalidRequest(last.data)) =>
        /\ ~last.looked_up /\ ~last.engine_called
        /\ IF last.data.body = "number" THEN last.status = 500 ELSE last.status = 400

\* ------------------------------------------------------------------------
\* C11: no two stored country records have the same country_code, under any
\* interleaving of add_country, init-db, remove_country, clean-db and the
\* loader; a request whose insert meets a code stored since its existence
\* check gets an error and adds nothing.
\* ------------------------------------------------------------------------
CodesUnique ==
    \A r \in stored_countries :
        /\ CopiesIn(r, countries) = 1
        /\ \A q \in stored_countries : q.country_code = r.country_code => q = r

InsertRoutes == {"add_country", "initialize_database", "load_sample_countries"}

\* the step commits the insert of process p, and the table holds one of its
\* codes by now
LosesRace(p) ==
    /\ pending[p].phase = "flight" /\ pending[p].route \in InsertRoutes
    /\ pending'[p].phase = "idle"
    /\ UniqueViolation(stored_countries, pending[p].detail)

C11_CodesUnique ==
    /\ []CodesUnique
    /\ [][\A p \in Processes : LosesRace(p) => (last'.status = 500 /\ countries' = countries)]_vars

\* an add_country lost the race for ZZZ: it was answered 500 and the table
\* holds the winner's row
C11_Witness ==
    /\ last.route = "add_country" /\ last.status = 500
    /\ upper(last.data.country_code.s) = "ZZZ"
    /\ Cardinality(Matching(stored_countries, "ZZZ")) = 1

\* ------------------------------------------------------------------------
\* C12: add_country stores the uppercase form of the submitted code, and
\* check_coordinate, add_country's duplicate test and remove_country look
\* codes up by their uppercase form: a stored country is found, detected as
\* duplicate and removable under every letter-case variant of its code.
\* ------------------------------------------------------------------------
UppercaseCodes == {"USA", "ISR", "FRA", "DEU", "GBR", "ZZZ"}

\* the letter-case variants of a code that the requests of the model spell
VariantsOf(code) ==
    CASE code = "USA" -> {"USA", "usa", "Usa"}
      [] code = "ZZZ" -> {"ZZZ", "zzz"}
      [] OTHER -> {code}

\* the rows of the table of which the field spells a letter-case variant
NamedRows(field, table) ==
    {r \in table : field.k = "str" /\ field.s \in VariantsOf(r.country_code)}

CaseInsensitiveStep ==
    /\ (last'.route = "check" /\ ValidCoordinates(last'.data)
            /\ NamedRows(last'.data.country_code, countries) # {})
          => last'.looked_up /\ last'.status # 404
    /\ (last'.route = "add_country" /\ last'.data.body = "object"
            /\ last'.data.polygon_data.k # "obj"
            /\ NamedRows(last'.data.country_code, countries) # {})
          => last'.status = 400 /\ countries' = countries
    /\ (last'.route = "add_country" /\ last'.status = 200)
          => \E r \in countries' \ countries :
                /\ r.country_code \in UppercaseCodes
                /\ last'.data.country_code.s \in VariantsOf(r.country_code)
    /\ (last'.route = "remove_country"
            /\ NamedRows(last'.data.country_code, countries) # {})
          => /\ last'.status = 200
             /\ countries' = countries \ NamedRows(last'.data.country_code, countries)

C12_CaseNormalization ==
    /\ [](\A r \in countries : r.country_code \in UppercaseCodes)
    /\ [][CaseInsensitiveStep]_vars

\* USA, stored by init-db, was removed as "Usa"
C12_Witness ==
    /\ last.route = "remove_country" /\ last.status = 200
    /\ last.data.country_code = Str("Usa")
    /\ Matching(countries, "USA") = {}

\* ------------------------------------------------------------------------
\* C13: a stored country record stays as it is in every later state (no
\* operation overwrites it, init-db and the loader run for its code
\* included) and disappears only through a successful remove_country for its
\* code or a successful clean-db.
\* ------------------------------------------------------------------------
\* the step answers a remove_country for the code with 200, or a clean-db
RemovedBy(code) ==
    \/ /\ last'.route = "remove_country" /\ last'.status = 200
       /\ upper(last'.data.country_code.s) = code
    \/ last'.route = "clean_database" /\ last'.status = 200

LifecycleStep ==
    \A r \in stored_countries :
        CopiesIn(r, countries') < CopiesIn(r, countries) => RemovedBy(r.country_code)

C13_RecordLifecycle == [][LifecycleStep]_vars

\* init-db ran while USA was stored with another name, and the row is as it was
C13_Witness ==
    /\ last.route = "initialize_database" /\ last.status = 200
    /\ \E r \in stored_countries : r.country_code = "USA" /\ r.country_name = "Test"
    /\ \E r \in stored_countries : r.country_code = "GBR"

\* ------------------------------------------------------------------------
\* C14: a client without an authenticated admin session never causes the
\* set of stored country records to change.
\* ------------------------------------------------------------------------
\* the step changes the countries table for a request of an HTTP client
ChangedByClient(c) == countries' # countries /\ last'.process = c

C14_OnlyAdminsChangeCountries ==
    [][\A c \in Clients : ChangedByClient(c) => is_authenticated(c)]_vars

\* the same, for every route but init-db, which is not login-protected
OnlyInitDbIsOpen ==
    [][\A c \in Clients :
          (ChangedByClient(c) /\ last'.route # "initialize_database") => is_authenticated(c)]_vars

\* ------------------------------------------------------------------------
\* C15: whatever its outcome (200, 400, 404, 500), check_coordinate leaves
\* the countries table and the admins table unchanged, and its answer is a
\* function of the coordinates and the stored payload alone, whatever other
\* requests ran before or run beside it.
\* ------------------------------------------------------------------------
\* the step answers a check request
AnswersCheck == last'.route = "check_coordinate" /\ pending' = pending

\* what is_point_in_polygon gives for the request and the row of its code
Contained(data, table) ==
    {is_point_in_polygon(data.latitude.n, data.longitude.n, r.polygon_data) :
        r \in Matching(table, upper(data.country_code.s))}

ReadOnlyCheckStep ==
    AnswersCheck =>
        /\ countries' = countries /\ admins' = admins /\ sessions' = sessions
        /\ last'.status \in {200, 400, 404, 500}
        /\ last'.status = 200 =>
              \E r \in Contained(last'.data, stored_countries) :
                  r.exc = "none" /\ r.val = last'.detail.is_inside
        /\ last'.status = 500 =>
              \E r \in Contained(last'.data, stored_countries) : r.exc # "none"
        /\ (last.route = "check_coordinate" /\ last.data = last'.data
                /\ Contained(last.data, stored_countries) # {}
                /\ last.status \in {200, 500})
              => last' = [last EXCEPT !.process = last'.process]

C15_CheckIsReadOnly == [][ReadOnlyCheckStep]_vars

\* a check was answered 200 while the request of another process is in flight
C15_Witness ==
    /\ last.route = "check_coordinate" /\ last.status = 200 /\ last.detail.is_inside
    /\ \E p \in Processes : pending[p].phase = "flight"

\* a check was answered 500
C15_WitnessFailure == last.route = "check_coordinate" /\ last.status = 500

\* ------------------------------------------------------------------------
\* C16: at least one admin always remains: once the admins table is
\* non-empty it stays non-empty, under any interleaving of add_admin and
\* remove_admin requests, two admins removing each other included.
\* ------------------------------------------------------------------------
C16_AdminRemains == [][admins # {} => admins' # {}]_vars

\* two admins have each passed the checks of remove_admin for the other
MutualRemoval ==
    /\ InFlight("c1", "remove_admin") /\ InFlight("c2", "remove_admin")
    /\ pending["c1"].detail.id = sessions["c2"]
    /\ pending["c2"].detail.id = sessions["c1"]

\* ------------------------------------------------------------------------
\* C17: while at least one admin exists, an unauthenticated client never
\* adds, removes or changes an admin account: init_admins, the one route
\* without a login, inserts the default admin only into an empty table, and
\* add_admin and remove_admin are rejected without an authenticated session.
\* ------------------------------------------------------------------------
ProtectedAdminRoutes == {"add_admin", "remove_admin", "init_admins_protected"}

\* the step changes the admins table while an admin exists
ChangesAccounts == admins # {} /\ admins' # admins

\* the request of process p goes from its checks on to its commit
Starts(p, routes) ==
    pending[p].phase = "idle" /\ pending'[p].phase = "flight" /\ pending'[p].route \in routes

C17_NoUnauthenticatedAccountChange ==
    [][/\ ChangesAccounts => last'.route \in ProtectedAdminRoutes
       /\ \A c \in Clients : Starts(c, ProtectedAdminRoutes) => is_authenticated(c)]_vars

\* the checks themselves are as the spec says: a protected route goes on
\* only for an authenticated session, and init_admins only on an empty table
AccountChecksHold ==
    [][\A c \in Clients :
          /\ Starts(c, ProtectedAdminRoutes) => is_authenticated(c)
          /\ Starts(c, {"init_admins"}) => admins = {}
          /\ (last'.process = c /\ last'.route \in ProtectedAdminRoutes /\ last'.status = 302)
                => admins' = admins]_vars

\* init_admins has counted no admin and has not committed, and an admin exists
StaleInitAdmins == \E c \in Clients : InFlight(c, "init_admins") /\ admins # {}

\* ------------------------------------------------------------------------
\* C18: once remove_admin has removed an account, every later request made
\* with that account's still-open session to a login-protected route is
\* answered as unauthenticated and changes nothing: the user of the session
\* is reloaded from the admins table on each request.
\* ------------------------------------------------------------------------
LoginProtected ==
    {"add_admin", "remove_admin", "init_admins_protected", "get_admins", "admin_stats",
     "admin_logout", "add_country", "remove_country", "clean_database"}

\* the session of client c names an account that is no longer stored
Stale(c) == sessions[c] # 0 /\ load_user(sessions[c]) = {}

\* the step answers a request of client c within its first transaction
AnswersAtOnce(c) == pending' = pending /\ last'.process = c

StaleSessionStep ==
    \A c \in Clients :
        (Stale(c) /\ Ready(c)) =>
            /\ ~Starts(c, LoginProtected)
            /\ (AnswersAtOnce(c) /\ last'.route \in LoginProtected) =>
                  /\ last'.status = 302 /\ last'.detail = "admin_login"
                  /\ countries' = countries /\ admins' = admins /\ sessions' = sessions
            /\ sessions'[c] = sessions[c] => Stale(c)'

C18_RemovedAdminLosesAccess ==
    /\ [](\A c \in Clients : sessions[c] # 0 => sessions[c] < next_id)
    /\ [][StaleSessionStep]_vars

\* the session of a removed admin was refused on add_country after a new
\* account had been stored
C18_Witness ==
    \E c \in Clients :
        /\ Stale(c)
        /\ last.process = c /\ last.route = "add_country" /\ last.status = 302
        /\ \E a \in admins : a.id > sessions[c]

\* ------------------------------------------------------------------------
\* C19: admin usernames are unique in every reachable state under any
\* interleaving of add_admin and init_admins: add_admin for a stored
\* username answers 400 and leaves the table unchanged, and of two
\* concurrent inserts of one username exactly one is stored.
\* ------------------------------------------------------------------------
UsernamesUnique == \A a, b \in admins : a.username = b.username => a = b

\* an authenticated add_admin with both fields, for a username that is stored
AddsStoredUsername(c) ==
    /\ AnswersAtOnce(c) /\ last'.route = "add_admin" /\ is_authenticated(c)
    /\ last'.data.username # "" /\ last'.data.password # ""
    /\ WithUsername(admins, last'.data.username) # {}

\* the insert of process p commits after another one stored its username
InsertsStoredUsername(p) ==
    /\ p \in Inserting /\ pending'[p].phase = "idle"
    /\ WithUsername(admins, pending[p].detail.username) # {}

UniqueUsernameStep ==
    \A c \in Clients :
        /\ AddsStoredUsername(c) => (last'.status = 400 /\ admins' = admins)
        /\ InsertsStoredUsername(c) => (last'.status = 500 /\ admins' = admins)

C19_UsernamesUnique == []UsernamesUnique /\ [][UniqueUsernameStep]_vars

\* of two overlapping add_admin requests for bob one was stored and the
\* other answered 500
C19_Witness ==
    /\ last.route = "add_admin" /\ last.status = 500 /\ last.data.username = "bob"
    /\ Cardinality(WithUsername(admins, "bob")) = 1
    /\ Cardinality(admins) = 2 /\ DefaultAdmin \in admins

\* add_admin for a stored username was answered 400
C19_WitnessExisting ==
    last.route = "add_admin" /\ last.status = 400 /\ last.detail = "exists"

\* ------------------------------------------------------------------------
\* C20: a session becomes authenticated only through admin_login with a
\* stored username and the password behind that account's hash; a login
\* with an unknown username or a wrong password leaves the session
\* unauthenticated, and logout makes an authenticated session unauthenticated.
\* ------------------------------------------------------------------------
\* the accounts of a login form: stored username, hash made of the password
AccountsOf(form) ==
    {a \in admins : /\ a.username = form.username
                    /\ a.password_hash.digest = <<"bcrypt", a.password_hash.salt, form.password>>}

LoginAnswered(c) == AnswersAtOnce(c) /\ last'.route = "admin_login"

SessionStep ==
    \A c \in Clients :
        /\ (~is_authenticated(c) /\ is_authenticated(c)') =>
              /\ LoginAnswered(c)
              /\ \E a \in AccountsOf(last'.data) : sessions'[c] = a.id
        /\ (LoginAnswered(c) /\ ~is_authenticated(c) /\ AccountsOf(last'.data) = {}) =>
              (sessions' = sessions /\ ~is_authenticated(c)')
        /\ (AnswersAtOnce(c) /\ last'.route = "admin_logout" /\ is_authenticated(c)) =>
              (sessions'[c] = 0 /\ ~is_authenticated(c)')

C20_SessionsByLoginOnly == [][SessionStep]_vars

\* a login with the password of the stored account has opened a session
C20_Witness ==
    \E c \in Clients :
        /\ last.process = c /\ last.route = "admin_login" /\ last.status = 302
        /\ last.data = LoginForm("bob", "pw")
        /\ is_authenticated(c) /\ current_user(c).username = "bob"

\* a login with a wrong password was answered with the form again
C20_WitnessWrongPassword ==
    /\ last.route = "admin_login" /\ last.status = 200
    /\ last.data = LoginForm("liron1219", "pw")
    /\ DefaultAdmin \in admins /\ sessions[last.process] = 0

\* a logout has closed a session
C20_WitnessLogout ==
    /\ last.route = "admin_logout" /\ last.status = 302 /\ admins # {}
    /\ sessions[last.process] = 0

\* ------------------------------------------------------------------------
\* C21: a failed country mutation leaves the store unchanged: add_country
\* with missing fields, with polygon_data that is not JSON, or with a code
\* that is stored (in any letter case) answers 400, remove_country for an
\* absent code answers 404, and in these cases, and whenever a request ends
\* with 500 after its rollback, the country records are what they were.
\* ------------------------------------------------------------------------
MutationRoutes ==
    {"add_country", "remove_country", "clean_database", "initialize_database",
     "load_sample_countries"}

\* the step answers a request to the route that @login_required let pass
Handles(route) == pending' = pending /\ last'.route = route /\ last'.status # 302

MissingFields(data) ==
    \/ data.body = "empty"
    \/ Falsy(data.country_code) \/ data.country_name = "" \/ data.polygon_data.k = "missing"

\* polygon_data is a string, of JSON or not
JsonString(data) == data.polygon_data.k = "str" /\ data.polygon_data.text.form # "garbage"
NotJson(data) == data.polygon_data.k = "str" /\ data.polygon_data.text.form = "garbage"

FailedMutationStep ==
    /\ (last'.route \in MutationRoutes /\ last'.status \in {400, 404, 500})
          => countries' = countries
    /\ Handles("add_country") =>
          /\ MissingFields(last'.data) => last'.status = 400
          /\ (~MissingFields(last'.data) /\ NotJson(last'.data)) => last'.status = 400
          /\ (~MissingFields(last'.data) /\ JsonString(last'.data)
                /\ NamedRows(last'.data.country_code, stored_countries) # {})
                => last'.status = 400
    /\ (Handles("remove_country") /\ last'.data.country_code.k = "str"
            /\ last'.data.country_code.s # ""
            /\ NamedRows(last'.data.country_code, stored_countries) = {})
          => last'.status = 404
    /\ \A p \in Processes : LosesRace(p) => (last'.status = 500 /\ last'.process = p)

C21_WitnessMissing ==
    last.route = "add_country" /\ last.status = 400 /\ last.data.country_name = ""
C21_WitnessNotJson ==
    last.route = "add_country" /\ last.status = 400 /\ NotJson(last.data)
C21_WitnessAbsent ==
    last.route = "remove_country" /\ last.status = 404 /\ stored_countries # {}
C21_WitnessRollback ==
    /\ last.route = "initialize_database" /\ last.status = 500
    /\ stored_countries # {} /\ Cardinality(stored_countries) < Len(sample_countries)

\* ------------------------------------------------------------------------
\* C22: after add_country for a code has succeeded, a check with valid
\* coordinates for that code is answered 200, never 404, until a
\* remove_country for the code or a clean-db succeeds; after one of these
\* has succeeded, a check for the code is answered 404 until the code is
\* added again. Stated for the check that follows the success directly.
\* ------------------------------------------------------------------------
\* two request fields spell one code, in whatever letter case
SameCode(f, g) ==
    /\ f.k = "str" /\ g.k = "str"
    /\ \E code \in UppercaseCodes : f.s \in VariantsOf(code) /\ g.s \in VariantsOf(code)

\* the step answers a check with valid coordinates
ChecksValid == pending' = pending /\ last'.route = "check_coordinate"
                  /\ ValidCoordinates(last'.data)

\* the latest response reports the success of an add, or of a removal
Added == last.route = "add_country" /\ last.status = 200
Removed == last.route = "remove_country" /\ last.status = 200
Cleaned == last.route = "clean_database" /\ last.status = 200

AfterAdd ==
    (Added /\ ChecksValid /\ SameCode(last.data.country_code, last'.data.country_code))
        => last'.status = 200
AfterRemoval ==
    /\ (Removed /\ ChecksValid /\ SameCode(last.data.country_code, last'.data.country_code))
          => last'.status = 404
    /\ (Cleaned /\ ChecksValid) => last'.status = 404

C22_AddRemoveVisibility == [][AfterAdd /\ AfterRemoval]_vars

\* what holds of the parts: an added code is never answered 404, and is
\* answered 200 when its stored text is one the engine can evaluate
AddedIsFound ==
    [][(Added /\ ChecksValid /\ SameCode(last.data.country_code, last'.data.country_code))
          => last'.status \in {200, 500}]_vars
AddedWellFormedIsAnswered ==
    [][(Added /\ ChecksValid /\ SameCode(last.data.country_code, last'.data.country_code)
          /\ last.data.polygon_data.text.form \in {"Polygon", "MultiPolygon"})
          => last'.status = 200]_vars
CleanedIsAbsent == [][(Cleaned /\ ChecksValid) => last'.status = 404]_vars

\* the removal alone: violated when the removal deleted no row
RemovedIsAbsent ==
    [][(Removed /\ ChecksValid /\ SameCode(last.data.country_code, last'.data.country_code))
          => last'.status = 404]_vars

\* a remove_country was answered 200 although its DELETE matched no row
RemovedNothing ==
    /\ Removed
    /\ NamedRows(last.data.country_code, stored_countries) # {}

\* ------------------------------------------------------------------------
\* C23: init-db is idempotent: it inserts a sample country only when no
\* record has its code, so a run that no other request disturbs stores
\* every sample code, and a run over a table that holds them adds nothing
\* and reports countries_added empty; countries_added lists exactly the
\* codes the run inserted; concurrent runs never leave a sample code twice.
\* ------------------------------------------------------------------------
SampleCodes == {sample_countries[i].country_code : i \in 1..Len(sample_countries)}

\* the rows of the table with a given code, counted with their copies
CopiesOfCode(code) ==
    BagCardinality([r \in Matching(stored_countries, code) |-> CopiesIn(r, countries)])

NoSampleTwice == \A code \in SampleCodes : CopiesOfCode(code) <= 1

\* the latest response is that of a successful init-db
InitDone == last.route = "initialize_database" /\ last.status = 200

\* the step commits, or rolls back, the init-db run of client c
InitCommits(c) == InFlight(c, "initialize_database") /\ pending'[c].phase = "idle"

\* every sample code is stored
SamplesStored(table) == \A code \in SampleCodes : Matching(table, code) # {}

\* no other request has changed the sample rows since the run of client c
\* read them: its rows are the sample rows of the codes that are not stored
Undisturbed(c) ==
    \A code \in SampleCodes :
        (\E r \in pending[c].detail : r.country_code = code)
            <=> Matching(stored_countries, code) = {}

IdempotentStep ==
    \A c \in Clients :
        /\ (SamplesStored(stored_countries) /\ Starts(c, {"initialize_database"}))
              => pending'[c].detail = {}
        /\ (InitCommits(c) /\ Undisturbed(c)) =>
              (last'.status = 200 /\ SamplesStored(BagToSet(countries')))
        /\ InitCommits(c) =>
              /\ last'.route = "initialize_database" /\ last'.process = c
              /\ last'.status \in {200, 500}
              /\ last'.status = 500 => countries' = countries
              /\ last'.status = 200 =>
                    /\ countries' = countries (+) SetToBag(last'.detail)
                    /\ \A r \in last'.detail :
                          /\ r.country_code \in SampleCodes
                          /\ Matching(stored_countries, r.country_code) = {}
              /\ pending[c].detail = {} =>
                    (last'.status = 200 /\ last'.detail = {} /\ countries' = countries)

C23_InitDbIdempotent == []NoSampleTwice /\ [][IdempotentStep]_vars

\* a run after a successful run has reported countries_added empty
C23_Witness ==
    /\ InitDone /\ last.detail = {}
    /\ \A code \in SampleCodes : CopiesOfCode(code) = 1

\* of two overlapping runs one was rolled back
C23_WitnessConcurrent ==
    /\ last.route = "initialize_database" /\ last.status = 500
    /\ \A code \in SampleCodes : CopiesOfCode(code) = 1

\* a run has inserted some of the sample countries, not all
C23_WitnessPartial ==
    /\ InitDone /\ last.detail # {}
    /\ Cardinality(last.detail) < Len(sample_countries)

====
